---- MODULE Spec2Model ----
(***************************************************************************)
(* Model of the virtual try-on relay service (src/main.py): one Flask      *)
(* handler, POST /virtual-try-on, that downloads two images, calls an      *)
(* external inference service, uploads the two result files to a storage   *)
(* bucket and removes its local scratch files in a finally block.          *)
(*                                                                         *)
(* The handler's external calls (HTTP GET, inference, storage upload,      *)
(* public-URL resolution, os.remove) are modelled by their possible        *)
(* outcomes, chosen nondeterministically.  Several requests are handled    *)
(* concurrently (Flask's threaded server), interleaved at the granularity  *)
(* of one external call.                                                   *)
(***************************************************************************)
EXTENDS Naturals, Sequences, FiniteSets, TLC

VARIABLES
    supabase,                   \* the module-level storage client handle (line 29)
    fs,                         \* local disk: path -> content
    bucket,                     \* the storage bucket: storage_path -> object
    pc,                         \* per request: the handler's position
    data,                       \* per request: the body request.get_json() returned
    local_human_path,           \* per request: handler local (line 102)
    local_garment_path,         \* per request: handler local (line 103)
    result,                     \* per request: value returned by client.predict
    local_gradio_output_path,   \* per request: handler local (line 104)
    local_gradio_masked_path,   \* per request: handler local (line 105)
    processed_image_public_url, \* per request: handler local (line 156)
    primary,                    \* per request: the response the try/except chose
    response,                   \* per request: the response the caller received
    ops,                        \* per request: log of the steps attempted
    created,                    \* per request: scratch paths created for it
    ctName,                     \* content-type check: the filename
    ctType                      \* content-type check: the selected type

vars == <<supabase, fs, bucket, pc, data, local_human_path, local_garment_path,
          result, local_gradio_output_path, local_gradio_masked_path,
          processed_image_public_url, primary, response, ops, created,
          ctName, ctType>>

reqVars == <<supabase, fs, bucket, pc, data, local_human_path, local_garment_path,
             result, local_gradio_output_path, local_gradio_masked_path,
             processed_image_public_url, primary, response, ops, created>>

ctVars == <<ctName, ctType>>

-----------------------------------------------------------------------------
(* Values *)

\* Python's None for paths, results, responses and the client handle.
None == <<>>

\* The requests handled concurrently.
Reqs == {"r1", "r2"}

UPLOAD_FOLDER == "temp_images"

SUPABASE_BUCKET_NAME == "virtual-try-extracted"

Digit == <<"1", "2", "3", "4", "5", "6">>

\* uuid.uuid4(): a fresh value at every call; call site k of request r.
\* The value is a sequence of string tokens, as every file name is.
uuid4(r, k) == <<r, Digit[k]>>

\* Image URLs a caller may send.
Urls == {"http://h/a.jpg", "http://g/b.png?v=1"}

\* os.path.basename(url).split('?')[0], as a sequence of characters.
BasenameNoQuery(url) ==
    CASE url = "http://h/a.jpg" -> <<"a", ".", "j", "p", "g">>
      [] url = "http://g/b.png?v=1" -> <<"b", ".", "p", "n", "g">>
      [] OTHER -> <<>>

\* os.path.join(folder, filename)
os_path_join(folder, filename) == [dir |-> <<folder>>, file |-> filename]

\* os.path.basename(file_path)
os_path_basename(file_path) == file_path.file

\* os.path.exists(path)
os_path_exists(files, path) == path \in DOMAIN files

\* open(path, 'wb') followed by writes: the file exists with that content.
WriteFile(files, path, content) ==
    [p \in DOMAIN files \cup {path} |-> IF p = path THEN content ELSE files[p]]

\* os.remove(path), when it succeeds.
RemoveFile(files, path) == [p \in DOMAIN files \ {path} |-> files[p]]

-----------------------------------------------------------------------------
(* Messages and responses *)

MSG_MISSING == "Missing human_image_url or garment_image_url"

MSG_DOWNLOAD == "Failed to download one or more input images from provided URLs."

MSG_FORMAT == "Unexpected API response format from Gradio API. Expected a tuple of 2 local file paths."

MSG_STORAGE == "Supabase client not initialized. Cannot upload files. Check backend logs for details."

MSG_NOT_FOUND == "File not found for upload"

\* str(e) of the AttributeError raised by data.get when data is not a dict.
MSG_ATTRIBUTE == "object has no attribute 'get'"

\* str(e) of the exception an external call raised, by outcome.
ExcMessage(outcome) ==
    CASE outcome = "http_error" -> "404 Client Error: Not Found for url"
      [] outcome = "stream_error" -> "Connection broken: IncompleteRead"
      [] outcome = "os_error" -> "[Errno 36] File name too long"
      [] outcome = "raise" -> "The upstream Gradio app has raised an exception"
      [] outcome = "upload_error" -> "storage upload failed"
      [] outcome = "url_error" -> "public url failed"
      [] OTHER -> ""

\* jsonify({"error": msg}), status
ErrorResponse(msg, status) == [status |-> status, body |-> [error |-> msg]]

\* lines 169-171 as they would be with the status of line 114.
ExceptResponseAs400(msg) == ErrorResponse(msg, 400)

\* lines 169-171 as they would be without the status: Flask then answers 200.
ExceptResponseNoStatus(msg) == ErrorResponse(msg, 200)

\* lines 169-171: except Exception as e: return jsonify({"error": str(e)}), 500
ExceptResponse(msg) == ErrorResponse(msg, 500)

\* line 162-165
SuccessResponse(output_url, masked_url) ==
    [status |-> 200, body |-> [output_url |-> output_url, masked_url |-> masked_url]]

\* What Flask sends when the view function itself raises (here: out of the
\* finally block): its own 500 page, not a JSON body of the handler.
FrameworkResponse == [status |-> 500, body |-> [html |-> "Internal Server Error"]]

-----------------------------------------------------------------------------
(* Startup: the storage client (lines 19-39) *)

\* Values os.getenv may give SUPABASE_URL and SUPABASE_KEY; "" stands for a
\* variable that is unset or empty (both are falsy at line 30).
EnvValues == {"", "set"}

\* create_client(url, key) when it does not raise.
create_client(url, key) == [url |-> url, key |-> key]

\* lines 29-39: the handle after startup. createOk: create_client returned.
InitSupabase(url, key, createOk) ==
    IF url /= "" /\ key /= ""
    THEN IF createOk THEN create_client(url, key) ELSE None
    ELSE None

-----------------------------------------------------------------------------
(* Content type selection (lines 73-81) *)

\* str.lower() on one character, for the letters file names here use.
LowerChar(c) ==
    CASE c = "P" -> "p" [] c = "N" -> "n" [] c = "G" -> "g" [] c = "J" -> "j"
      [] c = "E" -> "e" [] c = "I" -> "i" [] c = "F" -> "f" [] c = "W" -> "w"
      [] c = "B" -> "b" [] c = "A" -> "a" [] c = "X" -> "x"
      [] OTHER -> c

\* str.lower()
Lower(s) == [i \in 1..Len(s) |-> LowerChar(s[i])]

\* str.endswith(suffix)
EndsWith(s, suffix) ==
    /\ Len(s) >= Len(suffix)
    /\ SubSeq(s, Len(s) - Len(suffix) + 1, Len(s)) = suffix

DotPng == <<".", "p", "n", "g">>

DotJpeg == <<".", "j", "p", "e", "g">>

DotJpg == <<".", "j", "p", "g">>

DotGif == <<".", "g", "i", "f">>

\* lines 75-81 as they would be without the '.jpg' alternative of line 78.
ContentTypeNoJpg(filename) ==
    IF EndsWith(Lower(filename), DotPng) THEN "image/png"
    ELSE IF EndsWith(Lower(filename), DotJpeg) THEN "image/jpeg"
    ELSE IF EndsWith(Lower(filename), DotGif) THEN "image/gif"
    ELSE "image/webp"

\* lines 75-81
ContentType(filename) ==
    IF EndsWith(Lower(filename), DotPng) THEN "image/png"
    ELSE IF EndsWith(Lower(filename), DotJpeg) \/ EndsWith(Lower(filename), DotJpg)
         THEN "image/jpeg"
    ELSE IF EndsWith(Lower(filename), DotGif) THEN "image/gif"
    ELSE "image/webp"

-----------------------------------------------------------------------------
(* download_image (lines 42-55) *)

\* How one GET can end: "ok"; "http_error": requests.get or raise_for_status
\* raises a RequestException before the file is opened; "stream_error":
\* iter_content raises a RequestException after open() created the file;
\* "os_error": open() raises OSError, which download_image does not catch.
DownloadOutcomes == {"ok", "http_error", "stream_error", "os_error"}

\* The bytes the origin serves for url, and a truncated prefix of them.
Bytes(url) == <<"bytes", url>>

PartialBytes(url) == <<"partial", url>>

\* download_image(url, filename) on disk `files`: the disk afterwards, the
\* value returned (a path or None) and whether an exception left the function.
download_image(files, url, filename, outcome) ==
    LET filepath == os_path_join(UPLOAD_FOLDER, filename) IN
    CASE outcome = "ok" ->
           [fs |-> WriteFile(files, filepath, Bytes(url)), ret |-> filepath,
            raised |-> FALSE, msg |-> "", opened |-> {filepath}]
      [] outcome = "http_error" ->
           [fs |-> files, ret |-> None,
            raised |-> FALSE, msg |-> "", opened |-> {}]
      [] outcome = "stream_error" ->
           [fs |-> WriteFile(files, filepath, PartialBytes(url)), ret |-> None,
            raised |-> FALSE, msg |-> "", opened |-> {filepath}]
      [] OTHER ->
           [fs |-> files, ret |-> None,
            raised |-> TRUE, msg |-> ExcMessage(outcome), opened |-> {}]

-----------------------------------------------------------------------------
(* upload_to_supabase (lines 57-98) *)

\* How the two storage calls can end: both return; upload raises;
\* upload returns and get_public_url raises.
UploadOutcomes == {"ok", "upload_error", "url_error"}

\* get_public_url(storage_path)
get_public_url(storage_path) == [bucket |-> SUPABASE_BUCKET_NAME, path |-> storage_path]

\* storage.from_(bucket).upload(storage_path, bytes, {'content-type': ...})
StorageUpload(bkt, storage_path, bytes, content_type) ==
    [k \in DOMAIN bkt \cup {storage_path} |->
        IF k = storage_path
        THEN [content |-> bytes, content_type |-> content_type]
        ELSE bkt[k]]

\* upload_to_supabase(file_path, destination_folder) with client handle
\* `client`, disk `files` and bucket `bkt`; u is the uuid4() drawn at line 67.
\* kind names how the call ended.
upload_to_supabase(client, files, bkt, file_path, destination_folder, u, outcome) ==
    IF client = None
    THEN [bucket |-> bkt, ret |-> None, raised |-> TRUE, msg |-> MSG_STORAGE,
          kind |-> "storage_unavailable"]
    ELSE IF ~os_path_exists(files, file_path)
    THEN [bucket |-> bkt, ret |-> None, raised |-> TRUE, msg |-> MSG_NOT_FOUND,
          kind |-> "file_not_found"]
    ELSE LET filename == os_path_basename(file_path)
             unique_filename == u \o <<"_">> \o filename
             storage_path == [folder |-> destination_folder, file |-> unique_filename]
             content_type == ContentType(filename)
             uploaded == StorageUpload(bkt, storage_path, files[file_path], content_type)
         IN CASE outcome = "ok" ->
                   [bucket |-> uploaded, ret |-> get_public_url(storage_path),
                    raised |-> FALSE, msg |-> "", kind |-> "ok"]
              [] outcome = "url_error" ->
                   [bucket |-> uploaded, ret |-> None,
                    raised |-> TRUE, msg |-> ExcMessage(outcome), kind |-> "url_error"]
              [] OTHER ->
                   [bucket |-> bkt, ret |-> None,
                    raised |-> TRUE, msg |-> ExcMessage(outcome), kind |-> "upload_error"]

-----------------------------------------------------------------------------
(* The finally block (lines 172-185) *)

\* The four guarded os.remove calls, in order, from slot i on.  failAt = i
\* means the os.remove of slot i raises (0: none raises); an exception leaves
\* the finally block at once, so the later slots are not looked at.
RECURSIVE RemoveScratch(_, _, _, _)
RemoveScratch(files, paths, i, failAt) ==
    IF i > Len(paths) THEN [fs |-> files, raised |-> FALSE]
    ELSE IF paths[i] /= None /\ os_path_exists(files, paths[i])
    THEN IF failAt = i
         THEN [fs |-> files, raised |-> TRUE]
         ELSE RemoveScratch(RemoveFile(files, paths[i]), paths, i + 1, failAt)
    ELSE RemoveScratch(files, paths, i + 1, failAt)

-----------------------------------------------------------------------------
(* The request handler virtual_try_on (lines 100-185) *)

\* JSON bodies request.get_json() may return: an object holding any subset of
\* the two URL keys, each empty or a URL, or a value that is no object (null).
Keys == {"human_image_url", "garment_image_url"}

FieldValues == {""} \cup Urls

Bodies ==
    {[kind |-> "other", fields |-> <<>>]} \cup
    {[kind |-> "object", fields |-> f] :
        f \in UNION {[K -> FieldValues] : K \in SUBSET Keys}}

\* `not data.get(key)`: the key is missing or its value is empty.
Falsy(d, key) == key \notin DOMAIN d.fields \/ d.fields[key] = ""

\* line 113
MissingUrl(d) == Falsy(d, "human_image_url") \/ Falsy(d, "garment_image_url")

\* line 117 and line 118: the scratch file names.
human_image_filename(r, d) ==
    <<"human_input_">> \o uuid4(r, 1) \o <<"_">> \o BasenameNoQuery(d.fields["human_image_url"])

garment_image_filename(r, d) ==
    <<"garment_input_">> \o uuid4(r, 2) \o <<"_">> \o BasenameNoQuery(d.fields["garment_image_url"])

\* line 123 as it would be if only the second path were tested.
DownloadFailedGarmentOnly(human_path, garment_path) == garment_path = None

\* line 123 as it would be if only the first path were tested.
DownloadFailedHumanOnly(human_path, garment_path) == human_path = None

\* line 123
DownloadFailed(human_path, garment_path) == human_path = None \/ garment_path = None

\* The values client.predict may return: a tuple or a list of n local paths.
ResultShapes ==
    {[type |-> "tuple", n |-> 2], [type |-> "list", n |-> 2],
     [type |-> "tuple", n |-> 1], [type |-> "tuple", n |-> 3]}

\* The file names the inference client gives its output files.
OutputName(i) ==
    IF i = 2 THEN <<"i", "m", "a", "g", "e", ".", "p", "n", "g">>
    ELSE <<"i", "m", "a", "g", "e", ".", "w", "e", "b", "p">>

\* The bytes of output i of request r's inference call.  The composed image
\* (and any further output) differs from call to call (seed=-1, line 144).
\* The mask, output 2, is computed from the human image alone: with
\* sameMask the service returns the same bytes for the same human image.
OutputBytes(r, i, human_url, sameMask) ==
    IF sameMask /\ i = 2
    THEN <<"mask_of", human_url>>
    ELSE <<"output", r, Digit[i]>>

\* The local path of output i: the handler does not choose it.  The client
\* library stores each output it fetched in a directory named after the hash
\* of the file's bytes, so equal bytes under equal names give equal paths.
OutputPath(r, i, human_url, sameMask) ==
    [dir |-> <<"gradio_tmp">> \o OutputBytes(r, i, human_url, sameMask),
     file |-> OutputName(i)]

PredictResult(r, shape, human_url, sameMask) ==
    [type |-> shape.type,
     elems |-> [i \in 1..shape.n |-> OutputPath(r, i, human_url, sameMask)]]

RECURSIVE WriteOutputs(_, _, _, _, _)
WriteOutputs(files, r, n, human_url, sameMask) ==
    IF n = 0 THEN files
    ELSE WriteFile(WriteOutputs(files, r, n - 1, human_url, sameMask),
                   OutputPath(r, n, human_url, sameMask),
                   OutputBytes(r, n, human_url, sameMask))

\* line 151: isinstance(result, tuple) and len(result) == 2
IsTwoTuple(res) == res.type = "tuple" /\ Len(res.elems) = 2

\* line 156: the destination folder of the processed image.
PROCESSED_FOLDER == "processed_images"

\* line 157 as it would be if it repeated line 156's folder.
MASKED_FOLDER_AsProcessed == "processed_images"

\* line 157: the destination folder of the masked image.
MASKED_FOLDER == "masked_images"

Log(r, step, outcome) ==
    ops' = [ops EXCEPT ![r] = Append(@, [step |-> step, outcome |-> outcome])]

\* Leaving the try block as it would be if the handler, instead of leaving,
\* went through the failed step again (a retry loop).
ReturnAndRetry(r, resp) ==
    /\ primary' = [primary EXCEPT ![r] = resp]
    /\ pc' = pc

\* Leave the try block with the response `resp`; the finally block is next.
Return(r, resp) ==
    /\ primary' = [primary EXCEPT ![r] = resp]
    /\ pc' = [pc EXCEPT ![r] = "cleanup"]

\* lines 102-118: read the body, validate, name the scratch files.
Validate(r) ==
    /\ pc[r] = "idle"
    /\ \E d \in Bodies :
        /\ data' = [data EXCEPT ![r] = d]
        /\ IF d.kind /= "object"
           THEN Return(r, ExceptResponse(MSG_ATTRIBUTE))
           ELSE IF MissingUrl(d)
           THEN Return(r, ErrorResponse(MSG_MISSING, 400))
           ELSE /\ pc' = [pc EXCEPT ![r] = "download_human"]
                /\ UNCHANGED primary
    /\ UNCHANGED <<supabase, fs, bucket, local_human_path, local_garment_path,
                   result, local_gradio_output_path, local_gradio_masked_path,
                   processed_image_public_url, response, ops, created, ctVars>>

\* line 120
DownloadHuman(r) ==
    /\ pc[r] = "download_human"
    /\ \E o \in DownloadOutcomes :
        LET dl == download_image(fs, data[r].fields["human_image_url"],
                                 human_image_filename(r, data[r]), o)
        IN /\ fs' = dl.fs
           /\ created' = [created EXCEPT ![r] = @ \cup dl.opened]
           /\ Log(r, "download_human", o)
           /\ IF dl.raised
              THEN /\ Return(r, ExceptResponse(dl.msg))
                   /\ UNCHANGED local_human_path
              ELSE /\ local_human_path' = [local_human_path EXCEPT ![r] = dl.ret]
                   /\ pc' = [pc EXCEPT ![r] = "download_garment"]
                   /\ UNCHANGED primary
    /\ UNCHANGED <<supabase, bucket, data, local_garment_path, result,
                   local_gradio_output_path, local_gradio_masked_path,
                   processed_image_public_url, response, ctVars>>

\* lines 121-124
DownloadGarment(r) ==
    /\ pc[r] = "download_garment"
    /\ \E o \in DownloadOutcomes :
        LET dl == download_image(fs, data[r].fields["garment_image_url"],
                                 garment_image_filename(r, data[r]), o)
        IN /\ fs' = dl.fs
           /\ created' = [created EXCEPT ![r] = @ \cup dl.opened]
           /\ Log(r, "download_garment", o)
           /\ IF dl.raised
              THEN /\ Return(r, ExceptResponse(dl.msg))
                   /\ UNCHANGED local_garment_path
              ELSE /\ local_garment_path' = [local_garment_path EXCEPT ![r] = dl.ret]
                   /\ IF DownloadFailed(local_human_path[r], dl.ret)
                      THEN Return(r, ExceptResponse(MSG_DOWNLOAD))
                      ELSE /\ pc' = [pc EXCEPT ![r] = "invoke"]
                           /\ UNCHANGED primary
    /\ UNCHANGED <<supabase, bucket, data, local_human_path, result,
                   local_gradio_output_path, local_gradio_masked_path,
                   processed_image_public_url, response, ctVars>>

\* lines 127-153 and 166-167: the inference call and the shape test.
Invoke(r) ==
    /\ pc[r] = "invoke"
    /\ \/ /\ Log(r, "predict", "raise")
          /\ Return(r, ExceptResponse(ExcMessage("raise")))
          /\ UNCHANGED <<fs, created, result, local_gradio_output_path,
                         local_gradio_masked_path>>
       \/ \E shape \in ResultShapes, sameMask \in BOOLEAN :
            LET human_url == data[r].fields["human_image_url"]
                res == PredictResult(r, shape, human_url, sameMask)
            IN
            /\ Log(r, "predict", "ok")
            /\ result' = [result EXCEPT ![r] = res]
            /\ fs' = WriteOutputs(fs, r, shape.n, human_url, sameMask)
            /\ created' = [created EXCEPT ![r] =
                              @ \cup {res.elems[i] : i \in 1..shape.n}]
            /\ IF IsTwoTuple(res)
               THEN /\ local_gradio_output_path' =
                          [local_gradio_output_path EXCEPT ![r] = res.elems[1]]
                    /\ local_gradio_masked_path' =
                          [local_gradio_masked_path EXCEPT ![r] = res.elems[2]]
                    /\ pc' = [pc EXCEPT ![r] = "upload_processed"]
                    /\ UNCHANGED primary
               ELSE /\ Return(r, ErrorResponse(MSG_FORMAT, 500))
                    /\ UNCHANGED <<local_gradio_output_path, local_gradio_masked_path>>
    /\ UNCHANGED <<supabase, bucket, data, local_human_path, local_garment_path,
                   processed_image_public_url, response, ctVars>>

\* line 156 as it would be if upload_to_supabase created the client itself
\* when the handle is absent (global supabase; supabase = create_client(...)).
UploadProcessedLazyInit(r) ==
    /\ pc[r] = "upload_processed"
    /\ supabase' = IF supabase = None THEN create_client("set", "set") ELSE supabase
    /\ \E o \in UploadOutcomes :
        LET up == upload_to_supabase(supabase', fs, bucket, local_gradio_output_path[r],
                                     PROCESSED_FOLDER, uuid4(r, 3), o)
        IN /\ bucket' = up.bucket
           /\ Log(r, "upload_processed", up.kind)
           /\ IF up.raised
              THEN /\ Return(r, ExceptResponse(up.msg))
                   /\ UNCHANGED processed_image_public_url
              ELSE /\ processed_image_public_url' =
                          [processed_image_public_url EXCEPT ![r] = up.ret]
                   /\ pc' = [pc EXCEPT ![r] = "upload_masked"]
                   /\ UNCHANGED primary
    /\ UNCHANGED <<fs, data, local_human_path, local_garment_path, result,
                   local_gradio_output_path, local_gradio_masked_path,
                   response, created, ctVars>>

\* line 156
UploadProcessed(r) ==
    /\ pc[r] = "upload_processed"
    /\ \E o \in UploadOutcomes :
        LET up == upload_to_supabase(supabase, fs, bucket, local_gradio_output_path[r],
                                     PROCESSED_FOLDER, uuid4(r, 3), o)
        IN /\ bucket' = up.bucket
           /\ Log(r, "upload_processed", up.kind)
           /\ IF up.raised
              THEN /\ Return(r, ExceptResponse(up.msg))
                   /\ UNCHANGED processed_image_public_url
              ELSE /\ processed_image_public_url' =
                          [processed_image_public_url EXCEPT ![r] = up.ret]
                   /\ pc' = [pc EXCEPT ![r] = "upload_masked"]
                   /\ UNCHANGED primary
    /\ UNCHANGED <<supabase, fs, data, local_human_path, local_garment_path, result,
                   local_gradio_output_path, local_gradio_masked_path,
                   response, created, ctVars>>

\* lines 157-165 as they would be if a failed masked upload removed the
\* processed object again (a compensating delete).
UploadMaskedWithRollback(r) ==
    /\ pc[r] = "upload_masked"
    /\ \E o \in UploadOutcomes :
        LET up == upload_to_supabase(supabase, fs, bucket, local_gradio_masked_path[r],
                                     MASKED_FOLDER, uuid4(r, 4), o)
            kept == {k \in DOMAIN up.bucket :
                        ~(k.folder = PROCESSED_FOLDER /\ k.file[1] = r)}
        IN /\ Log(r, "upload_masked", up.kind)
           /\ IF up.raised
              THEN /\ bucket' = [k \in kept |-> up.bucket[k]]
                   /\ Return(r, ExceptResponse(up.msg))
              ELSE /\ bucket' = up.bucket
                   /\ Return(r, SuccessResponse(processed_image_public_url[r], up.ret))
    /\ UNCHANGED <<supabase, fs, data, local_human_path, local_garment_path, result,
                   local_gradio_output_path, local_gradio_masked_path,
                   processed_image_public_url, response, created, ctVars>>

\* lines 157-165
UploadMasked(r) ==
    /\ pc[r] = "upload_masked"
    /\ \E o \in UploadOutcomes :
        LET up == upload_to_supabase(supabase, fs, bucket, local_gradio_masked_path[r],
                                     MASKED_FOLDER, uuid4(r, 4), o)
        IN /\ bucket' = up.bucket
           /\ Log(r, "upload_masked", up.kind)
           /\ IF up.raised
              THEN Return(r, ExceptResponse(up.msg))
              ELSE Return(r, SuccessResponse(processed_image_public_url[r], up.ret))
    /\ UNCHANGED <<supabase, fs, data, local_human_path, local_garment_path, result,
                   local_gradio_output_path, local_gradio_masked_path,
                   processed_image_public_url, response, created, ctVars>>

\* The slots the finally block looks at, in its order.
ScratchSlots(r) ==
    <<local_human_path[r], local_garment_path[r],
      local_gradio_output_path[r], local_gradio_masked_path[r]>>

\* lines 172-185, then the response leaves: the one the try block returned,
\* or the framework's own 500 when an os.remove raised out of the finally block.
Cleanup(r) ==
    /\ pc[r] = "cleanup"
    /\ \E failAt \in 0..Len(ScratchSlots(r)) :
        LET fin == RemoveScratch(fs, ScratchSlots(r), 1, failAt) IN
        /\ failAt = 0 \/ fin.raised
        /\ fs' = fin.fs
        /\ response' = [response EXCEPT ![r] =
                           IF fin.raised THEN FrameworkResponse ELSE primary[r]]
    /\ pc' = [pc EXCEPT ![r] = "done"]
    /\ UNCHANGED <<supabase, bucket, data, local_human_path, local_garment_path,
                   result, local_gradio_output_path, local_gradio_masked_path,
                   processed_image_public_url, primary, ops, created, ctVars>>

-----------------------------------------------------------------------------
(* Specification of the service *)

Init ==
    /\ \E url \in EnvValues, key \in EnvValues, createOk \in BOOLEAN :
          supabase = InitSupabase(url, key, createOk)
    /\ fs = <<>>
    /\ bucket = <<>>
    /\ pc = [r \in Reqs |-> "idle"]
    /\ data = [r \in Reqs |-> [kind |-> "other", fields |-> <<>>]]
    /\ local_human_path = [r \in Reqs |-> None]
    /\ local_garment_path = [r \in Reqs |-> None]
    /\ result = [r \in Reqs |-> None]
    /\ local_gradio_output_path = [r \in Reqs |-> None]
    /\ local_gradio_masked_path = [r \in Reqs |-> None]
    /\ processed_image_public_url = [r \in Reqs |-> None]
    /\ primary = [r \in Reqs |-> None]
    /\ response = [r \in Reqs |-> None]
    /\ ops = [r \in Reqs |-> <<>>]
    /\ created = [r \in Reqs |-> {}]
    /\ ctName = <<>>
    /\ ctType = ""

Next ==
    \E r \in Reqs :
        \/ Validate(r)
        \/ DownloadHuman(r)
        \/ DownloadGarment(r)
        \/ Invoke(r)
        \/ UploadProcessed(r)
        \/ UploadMasked(r)
        \/ Cleanup(r)

Spec == Init /\ [][Next]_vars

-----------------------------------------------------------------------------
(* Specification of the content-type selection alone: the publisher is *)
(* given a file name and selects the upload's content type.            *)

\* Longest stem of a file name.
MaxStemLen == 2

StemChars == {"x", "A"}

Stems == UNION {[1..n -> StemChars] : n \in 0..MaxStemLen}

Extensions ==
    { <<>>,
      <<".", "p", "n", "g">>, <<".", "P", "N", "G">>, <<".", "P", "n", "g">>,
      <<".", "j", "p", "g">>, <<".", "J", "P", "G">>,
      <<".", "j", "p", "e", "g">>, <<".", "J", "p", "e", "g">>,
      <<".", "g", "i", "f">>, <<".", "G", "I", "F">>,
      <<".", "w", "e", "b", "p">>, <<".", "b", "i", "n">>,
      <<"p", "n", "g">>, <<".", "p", "n", "g", ".", "b", "i", "n">>,
      <<".", "j", "p", "g", ".", "g", "i", "f">>, <<".", "p", "n">> }

FileNames == {stem \o ext : stem \in Stems, ext \in Extensions}

InitContentType ==
    /\ supabase = None
    /\ fs = <<>>
    /\ bucket = <<>>
    /\ pc = [r \in Reqs |-> "idle"]
    /\ data = [r \in Reqs |-> [kind |-> "other", fields |-> <<>>]]
    /\ local_human_path = [r \in Reqs |-> None]
    /\ local_garment_path = [r \in Reqs |-> None]
    /\ result = [r \in Reqs |-> None]
    /\ local_gradio_output_path = [r \in Reqs |-> None]
    /\ local_gradio_masked_path = [r \in Reqs |-> None]
    /\ processed_image_public_url = [r \in Reqs |-> None]
    /\ primary = [r \in Reqs |-> None]
    /\ response = [r \in Reqs |-> None]
    /\ ops = [r \in Reqs |-> <<>>]
    /\ created = [r \in Reqs |-> {}]
    /\ ctName \in FileNames
    /\ ctType = ""

\* lines 75-81 applied to the file name.
SelectContentType ==
    /\ ctType = ""
    /\ ctType' = ContentType(ctName)
    /\ UNCHANGED <<ctName, reqVars>>

NextContentType == SelectContentType

SpecContentType == InitContentType /\ [][NextContentType]_vars

-----------------------------------------------------------------------------
(* Properties *)

Done(r) == pc[r] = "done"

\* The log entries of request r that record a failed step.
FailedSteps(r) == {i \in DOMAIN ops[r] : ops[r][i].outcome /= "ok"}

Failed(r) == FailedSteps(r) /= {}

\* The steps of request r that are uploads.
UploadSteps(r) ==
    {i \in DOMAIN ops[r] : ops[r][i].step \in {"upload_processed", "upload_masked"}}

\* The storage calls of request r that reached the storage backend.
BackendCalls(r) ==
    {i \in UploadSteps(r) : ops[r][i].outcome \in {"ok", "upload_error", "url_error"}}

HasOp(r, step, outcome) ==
    \E i \in DOMAIN ops[r] : ops[r][i] = [step |-> step, outcome |-> outcome]

\* C1: after the handler has finished, on every exit path, no scratch file
\* created on local disk during the request remains.
C1_NoScratchFileRemains ==
    \A r \in Reqs : Done(r) => created[r] \cap DOMAIN fs = {}

\* C2: the response the caller receives is the primary response determined
\* before cleanup started, whether or not a deletion in cleanup fails.
C2_CleanupNeverChangesResponse ==
    \A r \in Reqs : Done(r) => response[r] = primary[r]

\* C3: every request in which human_image_url or garment_image_url is missing
\* or empty is answered 400 with the fixed error body.
C3_MissingUrlIs400 ==
    \A r \in Reqs :
        Done(r) /\ MissingUrl(data[r])
            => response[r] = [status |-> 400,
                               body |-> [error |-> "Missing human_image_url or garment_image_url"]]


\* No step of request r was attempted twice.
NoStepRepeated(r) ==
    \A i, j \in DOMAIN ops[r] : i /= j => ops[r][i].step /= ops[r][j].step

\* C4 as stated: no step is retried, and once any step of a request has
\* failed, the handler performs no further external operation, and the
\* request ends with a 500 response.
C4_FailureShortCircuits ==
    /\ [][\A r \in Reqs : Failed(r) => ops'[r] = ops[r]]_vars
    /\ [](\A r \in Reqs : Done(r) /\ Failed(r) => response[r].status = 500)
    /\ [](\A r \in Reqs : NoStepRepeated(r))

\* C4 as amended: no step is retried, and once any step has failed, the
\* handler performs no further external operation and ends with a 500
\* response, except that the garment download is still attempted (once) after
\* a human download that failed with an error download_image catches.
C4_FailureShortCircuitsButGarment ==
    /\ [][\A r \in Reqs :
            Failed(r) /\ ops'[r] /= ops[r]
                => /\ Len(ops[r]) = 1
                   /\ ops[r][1].step = "download_human"
                   /\ ops[r][1].outcome \in {"http_error", "stream_error"}
                   /\ Len(ops'[r]) = 2
                   /\ SubSeq(ops'[r], 1, 1) = ops[r]
                   /\ ops'[r][2].step = "download_garment"]_vars
    /\ [](\A r \in Reqs : Done(r) /\ Failed(r) => response[r].status = 500)
    /\ [](\A r \in Reqs : NoStepRepeated(r))

\* A request whose human download failed, whose garment download was then
\* still made, and which ended with a 500 without any further step.
C4_Witness ==
    \E r \in Reqs :
        /\ Done(r)
        /\ Len(ops[r]) = 2
        /\ ops[r][1] = [step |-> "download_human", outcome |-> "http_error"]
        /\ ops[r][2] = [step |-> "download_garment", outcome |-> "ok"]
        /\ response[r].status = 500

\* A value is a two-element sequence: a tuple or a list of length two.
IsTwoElementSequence(res) == Len(res.elems) = 2

\* C5: if the inference call returns a value that is not a two-element
\* sequence, the response is 500 with the fixed unexpected-format message and
\* no upload is attempted during the request.
C5_MalformedResultIs500NoUpload ==
    \A r \in Reqs :
        Done(r) /\ result[r] /= None /\ ~IsTwoElementSequence(result[r])
            => /\ response[r] =
                    [status |-> 500,
                     body |-> [error |-> "Unexpected API response format from Gradio API. Expected a tuple of 2 local file paths."]]
               /\ UploadSteps(r) = {}

\* Both downloads succeeded and the inference call returned a pair of paths.
DownloadsAndInferenceSucceeded(r) ==
    /\ HasOp(r, "download_human", "ok")
    /\ HasOp(r, "download_garment", "ok")
    /\ HasOp(r, "predict", "ok")
    /\ result[r] /= None
    /\ IsTwoTuple(result[r])

\* C6: with the storage client not initialized, every request whose downloads
\* and inference call succeed ends with a 500 whose message states that
\* storage is unavailable; the failure occurs at the publish phase and no
\* upload call reaches the storage backend.
C6_StorageUnavailableIs500 ==
    \A r \in Reqs :
        supabase = None /\ Done(r) /\ DownloadsAndInferenceSucceeded(r)
            => /\ response[r] =
                    [status |-> 500,
                     body |-> [error |-> "Supabase client not initialized. Cannot upload files. Check backend logs for details."]]
               /\ ops[r][Len(ops[r])] =
                    [step |-> "upload_processed", outcome |-> "storage_unavailable"]
               /\ BackendCalls(r) = {}
               /\ bucket = <<>>


\* C7: the response is all-or-nothing: its body holds output_url if and only
\* if it holds masked_url, that is the case if and only if the status is 200,
\* and a 200 is returned only when both uploads, each with its public-URL
\* resolution, succeeded.
C7_AllOrNothing ==
    \A r \in Reqs :
        Done(r) =>
            LET body == response[r].body IN
            /\ "output_url" \in DOMAIN body <=> "masked_url" \in DOMAIN body
            /\ "output_url" \in DOMAIN body <=> response[r].status = 200
            /\ response[r].status = 200
                 => /\ HasOp(r, "upload_processed", "ok")
                    /\ HasOp(r, "upload_masked", "ok")

\* Two finished requests: one answered 200 with both URLs, one answered
\* without a URL after its processed upload succeeded and its masked one failed.
C7_Witness ==
    \E r, q \in Reqs :
        /\ Done(r) /\ response[r].status = 200
        /\ DOMAIN response[r].body = {"output_url", "masked_url"}
        /\ Done(q) /\ HasOp(q, "upload_processed", "ok") /\ ~HasOp(q, "upload_masked", "ok")
        /\ "output_url" \notin DOMAIN response[q].body

\* The message of the failure that ended a step with `outcome`.
UnderlyingMessage(outcome) ==
    CASE outcome = "storage_unavailable" -> MSG_STORAGE
      [] outcome = "file_not_found" -> MSG_NOT_FOUND
      [] OTHER -> ExcMessage(outcome)

\* C8: every download, inference, storage-unavailable or upload failure
\* produces a 500 response whose error field is the message of the underlying
\* failure; when a download fails, that is the message of the exception that
\* made the download fail.
C8_ErrorIsUnderlyingMessage ==
    \A r \in Reqs :
        Done(r) /\ Failed(r)
            => \E i \in FailedSteps(r) :
                  response[r] = [status |-> 500,
                                 body |-> [error |-> UnderlyingMessage(ops[r][i].outcome)]]

\* The bytes of the inference output file at `path`, as the inference call
\* wrote them (the directory is named after them).
OutputFileBytes(path) == Tail(path.dir)

\* The storage keys of the bucket in `folder` that public URL `url` names.
ObjectsNamedBy(url, folder) ==
    {k \in DOMAIN bucket :
        /\ k.folder = folder
        /\ url = [bucket |-> SUPABASE_BUCKET_NAME, path |-> k]}

\* C9: on a 200 response, output_url is the public URL of an object stored
\* under processed_images/ whose content is the first inference output file,
\* masked_url is the public URL of an object stored under masked_images/ whose
\* content is the second inference output file, and the two objects have
\* distinct keys in the configured bucket.
C9_UrlsNameTheUploadedOutputs ==
    \A r \in Reqs :
        Done(r) /\ response[r].status = 200
            => \E k1 \in ObjectsNamedBy(response[r].body.output_url, "processed_images"),
                  k2 \in ObjectsNamedBy(response[r].body.masked_url, "masked_images") :
                    /\ bucket[k1].content = OutputFileBytes(result[r].elems[1])
                    /\ bucket[k2].content = OutputFileBytes(result[r].elems[2])
                    /\ k1 /= k2

\* Both requests answered 200, so that four objects are in the bucket.
C9_Witness ==
    /\ \A r \in Reqs : Done(r) /\ response[r].status = 200
    /\ Cardinality(DOMAIN bucket) = 2 * Cardinality(Reqs)

-----------------------------------------------------------------------------
(* Properties of the content-type selection, under SpecContentType *)

\* C10 as stated, the endings compared as written: image/png for a name
\* ending in .png, image/jpeg for .jpg or .jpeg, image/gif for .gif, and
\* image/webp for every other name.
C10_ContentTypeTable ==
    ctType /= "" =>
        /\ EndsWith(ctName, DotPng) => ctType = "image/png"
        /\ EndsWith(ctName, DotJpg) \/ EndsWith(ctName, DotJpeg) => ctType = "image/jpeg"
        /\ EndsWith(ctName, DotGif) => ctType = "image/gif"
        /\ ~(\/ EndsWith(ctName, DotPng) \/ EndsWith(ctName, DotJpg)
             \/ EndsWith(ctName, DotJpeg) \/ EndsWith(ctName, DotGif))
              => ctType = "image/webp"

\* Upper-case and lower-case forms of one letter.
CasePairs ==
    {<<"P", "p">>, <<"N", "n">>, <<"G", "g">>, <<"J", "j">>, <<"E", "e">>,
     <<"I", "i">>, <<"F", "f">>, <<"W", "w">>, <<"B", "b">>, <<"A", "a">>,
     <<"X", "x">>}

SameLetter(c, d) == c = d \/ <<c, d>> \in CasePairs \/ <<d, c>> \in CasePairs

\* s ends in suffix, letter case ignored.
EndsWithAnyCase(s, suffix) ==
    /\ Len(s) >= Len(suffix)
    /\ \A i \in 1..Len(suffix) : SameLetter(s[Len(s) - Len(suffix) + i], suffix[i])

\* C10 as amended: the same table, with the ending compared without regard
\* to letter case (x.PNG selects image/png).
C10_ContentTypeTableAnyCase ==
    ctType /= "" =>
        /\ EndsWithAnyCase(ctName, DotPng) => ctType = "image/png"
        /\ EndsWithAnyCase(ctName, DotJpg) \/ EndsWithAnyCase(ctName, DotJpeg)
              => ctType = "image/jpeg"
        /\ EndsWithAnyCase(ctName, DotGif) => ctType = "image/gif"
        /\ ~(\/ EndsWithAnyCase(ctName, DotPng) \/ EndsWithAnyCase(ctName, DotJpg)
             \/ EndsWithAnyCase(ctName, DotJpeg) \/ EndsWithAnyCase(ctName, DotGif))
              => ctType = "image/webp"

\* The type was selected for a name whose extension is written in upper case.
C10_Witness ==
    /\ ctType = "image/jpeg"
    /\ EndsWith(ctName, <<".", "J", "P", "G">>)


-----------------------------------------------------------------------------
(* Properties of the service, continued (under Spec) *)

\* Request r takes the step.
Steps(r) == pc'[r] /= pc[r]

\* C11: under any interleaving of concurrent requests, scratch files are
\* exclusively owned by the request that created them: no step of a request
\* (a download, the cleanup) overwrites or deletes a scratch file that another
\* request created, even when the requests carry identical image URLs.
C11_ScratchFilesExclusivelyOwned ==
    [][\A r, q \in Reqs :
          r /= q /\ Steps(r)
              => \A p \in created[q] \cap DOMAIN fs :
                    p \in DOMAIN fs' /\ fs'[p] = fs[p]]_vars


\* C12: the storage client handle is set once at startup and never changes
\* afterwards: no step of any request assigns or re-initializes it, so a
\* handle that is absent after startup stays absent for every later request.
C12_HandleNeverChanges ==
    [][supabase' = supabase]_vars

\* The handle is absent and every request, one after the other or
\* interleaved, came to its publish phase and found it absent.
C12_Witness ==
    /\ supabase = None
    /\ \A r \in Reqs : Done(r) /\ HasOp(r, "upload_processed", "storage_unavailable")


\* The external steps of one request, in the order of the phases
\* Downloading, Invoking, Publishing.
PhaseOrder ==
    <<"download_human", "download_garment", "predict", "upload_processed", "upload_masked">>

\* C13: within one request the phases occur only in the order Validating,
\* Downloading, Invoking, Publishing, Responding: no external step before the
\* body passed validation, the inference call only after both downloads
\* succeeded, the processed-image upload only after the inference call
\* returned a two-element result, the masked-image upload only after the
\* processed-image upload returned its public URL, and the response only once
\* the handler has finished.
C13_PhasesInOrder ==
    \A r \in Reqs :
        /\ Len(ops[r]) <= Len(PhaseOrder)
        /\ \A i \in DOMAIN ops[r] : ops[r][i].step = PhaseOrder[i]
        /\ ops[r] /= <<>>
             => /\ data[r].kind = "object"
                /\ \A k \in Keys : k \in DOMAIN data[r].fields /\ data[r].fields[k] /= ""
        /\ Len(ops[r]) >= 3
             => ops[r][1].outcome = "ok" /\ ops[r][2].outcome = "ok"
        /\ Len(ops[r]) >= 4
             => /\ ops[r][3].outcome = "ok"
                /\ result[r] /= None
                /\ Len(result[r].elems) = 2
        /\ Len(ops[r]) >= 5
             => /\ ops[r][4].outcome = "ok"
                /\ processed_image_public_url[r] /= None
        /\ response[r] /= None => Done(r)

\* A request that went through every phase and was answered 200.
C13_Witness ==
    \E r \in Reqs :
        /\ Done(r)
        /\ [i \in DOMAIN ops[r] |-> ops[r][i].step] = PhaseOrder
        /\ response[r].status = 200


\* The objects request r's uploads put into `folder` of the bucket: their
\* keys start with a uuid4 of r.
ObjectsOf(r, folder) ==
    {k \in DOMAIN bucket : k.folder = folder /\ k.file[1] = r}

\* The attempts of `step` that request r made.
Attempts(r, step) == {i \in DOMAIN ops[r] : ops[r][i].step = step}

\* C14: each external operation is attempted at most once per request: at
\* most one GET per input image URL, at most one inference call, and at most
\* one upload into each of processed_images and masked_images, whatever the
\* outcome of the attempt.
C14_EachOperationAtMostOnce ==
    \A r \in Reqs :
        /\ \A i \in DOMAIN PhaseOrder : Cardinality(Attempts(r, PhaseOrder[i])) <= 1
        /\ Cardinality(ObjectsOf(r, "processed_images")) <= 1
        /\ Cardinality(ObjectsOf(r, "masked_images")) <= 1

\* A finished request whose last step, the masked upload, failed at the
\* storage backend, and which made each of the five steps once.
C14_Witness ==
    \E r \in Reqs :
        /\ Done(r)
        /\ Len(ops[r]) = 5
        /\ ops[r][5] = [step |-> "upload_masked", outcome |-> "upload_error"]
        /\ Cardinality(ObjectsOf(r, "processed_images")) = 1


\* One step of request r's handler.
HandlerStep(r) ==
    \/ Validate(r) \/ DownloadHuman(r) \/ DownloadGarment(r) \/ Invoke(r)
    \/ UploadProcessed(r) \/ UploadMasked(r) \/ Cleanup(r)

\* A response of one of the three documented shapes.
WellFormedResponse(resp) ==
    \/ resp.status = 200 /\ DOMAIN resp.body = {"output_url", "masked_url"}
    \/ resp.status \in {400, 500} /\ DOMAIN resp.body = {"error"}

\* C15: every external call returning or raising, every request's handler
\* terminates (it can always take its next step until it has finished) and
\* delivers exactly one response (none before it has finished), whose status
\* is 200, 400 or 500 and whose body is {output_url, masked_url} with status
\* 200 or {error} with status 400 or 500.
C15_TerminatesWithOneWellFormedResponse ==
    \A r \in Reqs :
        /\ Done(r) \/ ENABLED HandlerStep(r)
        /\ response[r] /= None <=> Done(r)
        /\ Done(r) => WellFormedResponse(response[r])


\* Request r is being, or was, answered 400.
Rejected(r) ==
    \/ primary[r] /= None /\ primary[r].status = 400
    \/ response[r] /= None /\ response[r].status = 400

\* C16: a request rejected by validation (400) has no effect outside the
\* response: it starts no download, creates no scratch file, does not call
\* the inference service, uploads nothing to the bucket, and none of its
\* steps (the validation, the finally block) changes the disk or the bucket.
C16_RejectedRequestHasNoEffect ==
    /\ [](\A r \in Reqs :
            Rejected(r)
                => /\ ops[r] = <<>>
                   /\ created[r] = {}
                   /\ ScratchSlots(r) = <<None, None, None, None>>
                   /\ ObjectsOf(r, "processed_images") = {}
                   /\ ObjectsOf(r, "masked_images") = {})
    /\ [][\A r \in Reqs :
            Steps(r) /\ primary'[r] /= None /\ primary'[r].status = 400
                => fs' = fs /\ bucket' = bucket]_vars

\* A request was answered 400 while the files and objects of another
\* request were on disk and in the bucket.
C16_Witness ==
    \E r \in Reqs :
        /\ Done(r)
        /\ response[r].status = 400
        /\ fs /= <<>>
        /\ bucket /= <<>>


\* The masked upload of request r was attempted and failed.
MaskedUploadFailed(r) ==
    \E i \in Attempts(r, "upload_masked") : ops[r][i].outcome /= "ok"

\* A body that reports an error: the handler's {error}, or the framework's
\* error page.
ErrorBody(resp) == DOMAIN resp.body \in {{"error"}, {"html"}}

\* C17: publishing performs no compensation: whenever the processed-image
\* upload succeeded and the masked-image upload (or its public-URL
\* resolution) then failed, the response is 500 with an error body and the
\* object uploaded under processed_images/ is still in the bucket when the
\* request has ended; no step ever removes an object from the bucket.
C17_NoCompensation ==
    /\ [](\A r \in Reqs :
            Done(r) /\ HasOp(r, "upload_processed", "ok") /\ MaskedUploadFailed(r)
                => /\ response[r].status = 500
                   /\ ErrorBody(response[r])
                   /\ \E k \in ObjectsOf(r, "processed_images") :
                         bucket[k].content = OutputFileBytes(result[r].elems[1]))
    /\ [][\A k \in DOMAIN bucket : k \in DOMAIN bucket' /\ bucket'[k] = bucket[k]]_vars

\* A finished request whose processed upload succeeded and whose masked
\* upload failed at the public-URL resolution: both objects are in the bucket.
C17_Witness ==
    \E r \in Reqs :
        /\ Done(r)
        /\ HasOp(r, "upload_processed", "ok")
        /\ HasOp(r, "upload_masked", "url_error")
        /\ ObjectsOf(r, "processed_images") /= {}
        /\ ObjectsOf(r, "masked_images") /= {}

====
